---- MODULE Spec2Model ----
(***************************************************************************)
(* Model of src/main.py: the session store (the module-level dict          *)
(* `sessions`), the background reaper cleanup_expired_sessions, the        *)
(* lifespan shutdown, the four request handlers (create_session, logout,   *)
(* refresh, send_chat) and the pure text normalizer                        *)
(* extract_text_from_html.                                                 *)
(*                                                                         *)
(* The handlers are asyncio coroutines on one event loop: code between two *)
(* `await`s runs atomically, so every action below is one stretch of code  *)
(* from one suspension point to the next.                                  *)
(***************************************************************************)
EXTENDS Integers, Sequences, FiniteSets, TLC

(***************************************************************************)
(* Text: a Python str is modelled as a sequence of one-character strings.  *)
(***************************************************************************)
WhiteSpace == {" ", "\n", "\t", "\r"}

UpperLetters == <<"A","B","C","D","E","F","G","H","I","J","K","L","M",
                  "N","O","P","Q","R","S","T","U","V","W","X","Y","Z">>
LowerLetters == <<"a","b","c","d","e","f","g","h","i","j","k","l","m",
                  "n","o","p","q","r","s","t","u","v","w","x","y","z">>

\* re.IGNORECASE compares characters after case folding.
Lower(c) ==
  IF \E k \in 1..26 : UpperLetters[k] = c
  THEN LowerLetters[CHOOSE k \in 1..26 : UpperLetters[k] = c]
  ELSE c

\* The literal lit occurs in s at position i (case-sensitively, or folded).
MatchAt(s, i, lit, fold) ==
  /\ i >= 1
  /\ i + Len(lit) - 1 <= Len(s)
  /\ \A k \in 1..Len(lit) :
       IF fold THEN Lower(s[i + k - 1]) = Lower(lit[k]) ELSE s[i + k - 1] = lit[k]

\* Smallest position >= j at which lit occurs in s, 0 when there is none.
FindFrom(s, j, lit) ==
  LET hits == {k \in j..Len(s) : MatchAt(s, k, lit, FALSE)}
  IN IF hits = {} THEN 0 ELSE CHOOSE k \in hits : \A m \in hits : k <= m

\* First position >= i whose character is not in set cs (Len(s)+1 at the end):
\* the end of a greedy run cs*.
RunEnd(s, i, cs) ==
  LET stops == {k \in i..Len(s) : s[k] \notin cs}
  IN IF stops = {} THEN Len(s) + 1 ELSE CHOOSE k \in stops : \A m \in stops : k <= m

(***************************************************************************)
(* The regular expressions of extract_text_from_html.  MatchEnd(pat, s, i) *)
(* is the position just after the match of pat that starts at i, 0 when    *)
(* pat does not match at i.  No pattern of the function matches the empty  *)
(* string.                                                                 *)
(***************************************************************************)
PatSpan(open, close) == [kind |-> "span", open |-> open, close |-> close]
PatOpenTag(tag)      == [kind |-> "open", tag |-> tag]
PatCloseTag(tag)     == [kind |-> "close", tag |-> tag]
PatAnyTag            == [kind |-> "anytag"]
PatSpaces            == [kind |-> "spaces"]
PatNewlines          == [kind |-> "newlines"]
PatLineTrim          == [kind |-> "linetrim"]

MatchEnd(pat, s, i) ==
  CASE pat.kind = "span" ->
         \* open.*?close with re.DOTALL: the nearest close after the open
         IF MatchAt(s, i, pat.open, FALSE)
         THEN LET k == FindFrom(s, i + Len(pat.open), pat.close)
              IN IF k > 0 THEN k + Len(pat.close) ELSE 0
         ELSE 0
    [] pat.kind = "open" ->
         \* <\s*TAG[^>]*> with re.IGNORECASE
         IF s[i] = "<"
         THEN LET j == RunEnd(s, i + 1, WhiteSpace)
              IN IF MatchAt(s, j, pat.tag, TRUE)
                 THEN LET k == RunEnd(s, j + Len(pat.tag), {c \in {s[n] : n \in 1..Len(s)} : c # ">"})
                      IN IF k <= Len(s) THEN k + 1 ELSE 0
                 ELSE 0
         ELSE 0
    [] pat.kind = "close" ->
         \* <\s*/TAG\s*> with re.IGNORECASE
         IF s[i] = "<"
         THEN LET j == RunEnd(s, i + 1, WhiteSpace)
              IN IF j <= Len(s) /\ s[j] = "/" /\ MatchAt(s, j + 1, pat.tag, TRUE)
                 THEN LET m == RunEnd(s, j + 1 + Len(pat.tag), WhiteSpace)
                      IN IF m <= Len(s) /\ s[m] = ">" THEN m + 1 ELSE 0
                 ELSE 0
         ELSE 0
    [] pat.kind = "anytag" ->
         \* <[^>]*>
         IF s[i] = "<"
         THEN LET k == RunEnd(s, i + 1, {c \in {s[n] : n \in 1..Len(s)} : c # ">"})
              IN IF k <= Len(s) THEN k + 1 ELSE 0
         ELSE 0
    [] pat.kind = "spaces" ->
         \* " +"
         IF s[i] = " " THEN RunEnd(s, i, {" "}) ELSE 0
    [] pat.kind = "newlines" ->
         \* \n{3,}
         LET e == RunEnd(s, i, {"\n"})
         IN IF e - i >= 3 THEN e ELSE 0
    [] pat.kind = "linetrim" ->
         \* "^ +| +$" with re.MULTILINE
         IF s[i] = " "
         THEN LET e == RunEnd(s, i, {" "})
              IN IF i = 1 \/ s[i - 1] = "\n" THEN e
                 ELSE IF e > Len(s) \/ s[e] = "\n" THEN e
                 ELSE 0
         ELSE 0

\* re.sub(pat, repl, s): the non-overlapping matches, leftmost first, replaced.
RECURSIVE SubFrom(_, _, _, _)
SubFrom(pat, repl, s, i) ==
  IF i > Len(s) THEN <<>>
  ELSE LET e == MatchEnd(pat, s, i)
       IN IF e > 0 THEN repl \o SubFrom(pat, repl, s, e)
          ELSE <<s[i]>> \o SubFrom(pat, repl, s, i + 1)

Sub(pat, repl, s) == SubFrom(pat, repl, s, 1)

\* str.strip()
Strip(s) ==
  LET keep == {k \in 1..Len(s) : s[k] \notin WhiteSpace}
  IN IF keep = {} THEN <<>>
     ELSE LET a == CHOOSE k \in keep : \A m \in keep : k <= m
              b == CHOOSE k \in keep : \A m \in keep : k >= m
          IN SubSeq(s, a, b)

Chars_script_open  == <<"<","s","c","r","i","p","t">>
Chars_script_close == <<"<","/","s","c","r","i","p","t",">">>
Chars_style_open   == <<"<","s","t","y","l","e">>
Chars_style_close  == <<"<","/","s","t","y","l","e",">">>
Chars_comment_open  == <<"<","!","-","-">>
Chars_comment_close == <<"-","-",">">>

\* The list of block tags of the for loop, in its order.
BlockTags == << <<"p">>, <<"d","i","v">>, <<"h","1">>, <<"h","2">>, <<"h","3">>,
                <<"h","4">>, <<"h","5">>, <<"h","6">>, <<"l","i">>, <<"b","r">>,
                <<"t","r">> >>

\* The body of the for loop, for the tags from the n-th on.
RECURSIVE BlockPass(_, _)
BlockPass(s, n) ==
  IF n > Len(BlockTags) THEN s
  ELSE BlockPass(Sub(PatCloseTag(BlockTags[n]), <<"\n">>,
                     Sub(PatOpenTag(BlockTags[n]), <<"\n">>, s)), n + 1)

\* Lines 30-36: the whitespace clean-up, in the order of the code.
CleanWhitespace(s) ==
  LET t1 == Sub(PatSpaces, <<" ">>, s)
      t2 == Sub(PatNewlines, <<"\n", "\n">>, t1)
      t3 == Sub(PatLineTrim, <<>>, t2)
  IN Strip(t3)

extract_text_from_html(html_content) ==
  LET h1 == Sub(PatSpan(Chars_script_open, Chars_script_close), <<>>, html_content)
      h2 == Sub(PatSpan(Chars_style_open, Chars_style_close), <<>>, h1)
      h3 == Sub(PatSpan(Chars_comment_open, Chars_comment_close), <<>>, h2)
      h4 == BlockPass(h3, 1)
      h5 == Sub(PatAnyTag, <<" ">>, h4)
  IN CleanWhitespace(h5)


(***************************************************************************)
(* Configuration (lines 42-43) and the settle delay of send_chat.          *)
(***************************************************************************)
SESSION_TIMEOUT == 600
CLEANUP_INTERVAL == 30
SETTLE_DELAY == 10

(***************************************************************************)
(* Bounds of the model.                                                    *)
(***************************************************************************)
MaxTime == 660      \* the clock stops advancing here
Quantum == 30       \* largest single advance of the clock
MaxEngines == 2     \* engines launched over a run
BurstEnd == 0       \* requests are served up to this time ...
BurstStart == 600   \* ... and again from this time, for one cleanup interval

\* secrets.token_urlsafe(16) draws from this set; requests name ids of it.
Ids == {"s1", "s2"}
Engines == 1..MaxEngines

\* Attachment paths a request may name, and the ones os.path.exists finds.
Paths == {"present", "missing"}
OnDisk == {"present"}

\* data.get('files'): absent (None), one path, or a list of paths.
FilesNone == [kind |-> "none", paths |-> <<>>]
FilesStr(p) == [kind |-> "str", paths |-> <<p>>]
FilesList(ps) == [kind |-> "list", paths |-> ps]
FilesInputs ==
  { FilesNone, FilesStr("missing"), FilesList(<<"present", "missing">>) }

\* `if files:` -- None and the empty list are falsy.
Truthy(files) == files.kind # "none" /\ files.paths # <<>>
\* `files if isinstance(files, list) else [files]`
FileList(files) == files.paths
\* `files if files else None`
FilesEcho(files) == IF Truthy(files) THEN files ELSE FilesNone

\* Markup of the last response container, as str(last_response) yields it.
ResponseHtmls ==
  { <<"<","p",">","H","i","<","/","p",">">>,
    <<"<","d","i","v",">","o","k"," ","<","b",">","!","<","/","b",">","<","/","d","i","v",">">> }

VARIABLES
  now,        \* time.time(), in seconds
  sessions,   \* the dict `sessions`, in insertion order: <<[sid, browser, last]>>
  launched,   \* number of engines uc.start() has returned; they are 1..launched
  stops,      \* stops[b]: completed browser.stop() calls on engine b
  removals,   \* removals[b]: times the entry owning engine b was popped
  reaper,     \* the cleanup task: [pc, wake]
  serving,    \* FALSE once the lifespan shutdown code has run
  chat,       \* the send_chat request in flight
  out,        \* the response the last step sent to its caller, if it sent one
  nIn,        \* SpecNorm: the text handed to extract_text_from_html
  nOut        \* SpecNorm: <<its result, the result of normalizing that again>>

vars == <<now, sessions, launched, stops, removals, reaper, serving, chat, out,
          nIn, nOut>>
normVars == <<nIn, nOut>>

(***************************************************************************)
(* The dict `sessions`.                                                    *)
(***************************************************************************)
Sids(store) == {store[k].sid : k \in 1..Len(store)}
Has(store, sid) == sid \in Sids(store)
IndexOf(store, sid) == CHOOSE k \in 1..Len(store) : store[k].sid = sid
Get(store, sid) == store[IndexOf(store, sid)]

\* sessions[sid] = info: a new key is appended, an existing key keeps its place.
Put(store, sid, info) ==
  IF Has(store, sid)
  THEN [store EXCEPT ![IndexOf(store, sid)] = info]
  ELSE Append(store, info)

\* Mutant of Pop: the entry is left in the dict.
PopForgets(store, sid) == store

\* sessions.pop(sid) / sessions.pop(sid, None), for a key that is present.
Pop(store, sid) == SelectSeq(store, LAMBDA e : e.sid # sid)

\* sessions[sid]['last'] = t
Touch(store, sid, t) == [store EXCEPT ![IndexOf(store, sid)].last = t]

\* browser.stop() returned on engine b.
Stopped(b) == stops[b] > 0

Min(a, b) == IF a <= b THEN a ELSE b

\* stops (or removals) after one more stop (or pop) of every engine in bs.
Bump(f, bs) == [b \in DOMAIN f |-> IF b \in bs THEN f[b] + 1 ELSE f[b]]

EnginesOf(entries) == {entries[k].browser : k \in 1..Len(entries)}

(***************************************************************************)
(* Responses.  Statuses: "ok"; "NotFound" (HTTPException 404);             *)
(* "UploadFailure" (HTTPException 500 of line 159); "CreationFailure" (an  *)
(* exception out of the login flow); "Fault" (any other exception that     *)
(* leaves a handler).  sid is the session_id a create returns, echo the    *)
(* files_uploaded field and response the response field of a chat; sent    *)
(* lists the paths the turn handed to send_file.                           *)
(***************************************************************************)
NoOut == [op |-> "none", status |-> "none", sid |-> "", echo |-> FilesNone,
          sent |-> <<>>, response |-> <<>>]

Reply(op, status) == [NoOut EXCEPT !.op = op, !.status = status]

(***************************************************************************)
(* Initial state: the module is loaded (sessions = {}), and the lifespan   *)
(* start-up has created the cleanup task, which is due to run at once.     *)
(***************************************************************************)
ChatIdle ==
  [pc |-> "idle", sid |-> "", files |-> FilesNone, page |-> 0, idx |-> 0,
   sent |-> <<>>, retried |-> FALSE, wake |-> 0, clicks |-> 0]

ServiceInit ==
  /\ now = 0
  /\ sessions = <<>>
  /\ launched = 0
  /\ stops = [b \in Engines |-> 0]
  /\ removals = [b \in Engines |-> 0]
  /\ reaper = [pc |-> "sleeping", wake |-> 0]
  /\ serving = TRUE
  /\ chat = ChatIdle
  /\ out = NoOut

Init ==
  /\ ServiceInit
  /\ nIn = <<>> /\ nOut = <<>>

(***************************************************************************)
(* Time.  asyncio.sleep(CLEANUP_INTERVAL) wakes the cleanup task when its  *)
(* interval has passed: the clock does not move past the wake-up time      *)
(* while the task is due.                                                  *)
(***************************************************************************)
\* The model serves requests in two bursts, at the start of the run and
\* around the time the first sessions expire; outside them only the clock,
\* the cleanup task and the shutdown run.
InBurst ==
  \/ now <= BurstEnd
  \/ now >= BurstStart /\ now <= BurstStart + CLEANUP_INTERVAL

TickLen ==
  IF reaper.pc = "sleeping" THEN Min(Quantum, reaper.wake - now) ELSE Quantum

Tick ==
  /\ serving
  /\ TickLen > 0
  /\ now + TickLen <= MaxTime
  /\ now' = now + TickLen
  /\ out' = NoOut
  /\ UNCHANGED <<sessions, launched, stops, removals, reaper, serving, chat>>
  /\ UNCHANGED normVars

(***************************************************************************)
(* cleanup_expired_sessions, lines 48-56: one iteration of `while True`.   *)
(* There is no await between taking the snapshot and the end of the for    *)
(* loop, so the scan is one atomic step.  browser.stop() may raise; the    *)
(* loop has no try, so the exception ends the task.                        *)
(***************************************************************************)
\* Mutant of Expired: >= for >.
ExpiredAtTimeout(info, t) == t - info.last >= SESSION_TIMEOUT

\* line 53
Expired(info, t) == t - info.last > SESSION_TIMEOUT

\* The expired entries of the snapshot list(sessions.items()), in its order.
ExpiredEntries(store, t) == SelectSeq(store, LAMBDA e : Expired(e, t))

\* lines 54-55 for each entry of the sequence es, in order.
RECURSIVE PopEach(_, _)
PopEach(store, es) ==
  IF es = <<>> THEN store ELSE PopEach(Pop(store, Head(es).sid), Tail(es))

\* How long the task sleeps before its next scan (line 56).
ReaperSleep == CLEANUP_INTERVAL

ReaperScan ==
  /\ serving
  /\ reaper.pc = "sleeping"
  /\ now >= reaper.wake
  /\ LET exp == ExpiredEntries(sessions, now)
     IN \/ \* every stop() returns
           /\ sessions' = PopEach(sessions, exp)
           /\ stops' = Bump(stops, EnginesOf(exp))
           /\ removals' = Bump(removals, EnginesOf(exp))
           /\ reaper' = [pc |-> "sleeping", wake |-> now + ReaperSleep]
        \/ \* the stop() of the k-th expired entry raises
           \E k \in 1..Len(exp) :
             LET done == SubSeq(exp, 1, k - 1)
             IN /\ sessions' = PopEach(sessions, done)
                /\ stops' = Bump(stops, EnginesOf(done))
                /\ removals' = Bump(removals, EnginesOf(done))
                /\ reaper' = [pc |-> "dead", wake |-> reaper.wake]
  /\ out' = NoOut
  /\ UNCHANGED <<now, launched, serving, chat>>
  /\ UNCHANGED normVars

(***************************************************************************)
(* lifespan, lines 64-68: the code after `yield`.  The cleanup task is     *)
(* cancelled and every remaining entry's engine is stopped, up to the      *)
(* first stop() that raises; the entries stay in the dict.  The server     *)
(* runs this code when it has stopped serving: the handlers still in       *)
(* flight are gone and no handler step follows.                            *)
(***************************************************************************)
Shutdown ==
  /\ serving
  /\ serving' = FALSE
  /\ reaper' = [reaper EXCEPT !.pc = IF reaper.pc = "dead" THEN "dead" ELSE "cancelled"]
  /\ \/ stops' = Bump(stops, EnginesOf(sessions))
     \/ \E k \in 1..Len(sessions) :
          stops' = Bump(stops, EnginesOf(SubSeq(sessions, 1, k - 1)))
  /\ chat' = ChatIdle
  /\ out' = NoOut
  /\ UNCHANGED <<now, sessions, launched, removals>>
  /\ UNCHANGED normVars

(***************************************************************************)
(* logout, lines 108-115.  No await: the handler is one atomic step.       *)
(***************************************************************************)
Logout(sid) ==
  /\ serving /\ InBurst
  /\ IF ~Has(sessions, sid)
     THEN /\ out' = Reply("logout", "NotFound")
          /\ UNCHANGED <<sessions, stops, removals>>
     ELSE \/ \* line 113 returns, line 114 pops
             /\ stops' = Bump(stops, {Get(sessions, sid).browser})
             /\ removals' = Bump(removals, {Get(sessions, sid).browser})
             /\ sessions' = Pop(sessions, sid)
             /\ out' = Reply("logout", "ok")
          \/ \* line 113 raises
             /\ out' = Reply("logout", "Fault")
             /\ UNCHANGED <<sessions, stops, removals>>
  /\ UNCHANGED <<now, launched, reaper, serving, chat>>
  /\ UNCHANGED normVars

(***************************************************************************)
(* refresh, lines 118-124.  No await.                                      *)
(***************************************************************************)
Refresh(sid) ==
  /\ serving /\ InBurst
  /\ IF ~Has(sessions, sid)
     THEN /\ out' = Reply("refresh", "NotFound")
          /\ UNCHANGED sessions
     ELSE /\ sessions' = Touch(sessions, sid, now)
          /\ out' = Reply("refresh", "ok")
  /\ UNCHANGED <<now, launched, stops, removals, reaper, serving, chat>>
  /\ UNCHANGED normVars

(***************************************************************************)
(* The engine (nodriver).  A call on it returns or raises; a call on a     *)
(* page whose engine has been stopped always raises.                       *)
(***************************************************************************)
\* Mutant of EngineCall: a stopped engine still answers.
EngineCallIgnoresStop(b) == {"ok", "raise"}

EngineCall(b) == IF Stopped(b) THEN {"raise"} ELSE {"ok", "raise"}

(***************************************************************************)
(* create_session, lines 75-105.  Every line of the login flow is an       *)
(* await; none is inside a try, so a raise ends the request with an error  *)
(* response.  Up to line 99 the handler acts on its own new engine only    *)
(* and reads nothing another task writes, and lines 97-105 follow the      *)
(* click without an await: the handler is taken as one step, at the time   *)
(* of its last line.                                                       *)
(***************************************************************************)
\* The awaits of lines 83-95, in order.
LoginSteps == <<"get", "body", "user", "user_keys", "pwd", "pwd_keys", "login", "click">>

\* Mutant of Register: the entry is not stored.
RegisterNothing(store, sid, browser, t) == store

\* Mutant of Register: the entry is stored without the current time.
RegisterNoTime(store, sid, browser, t) ==
  Put(store, sid, [sid |-> sid, browser |-> browser, last |-> 0])

\* lines 99-103
Register(store, sid, browser, t) ==
  Put(store, sid, [sid |-> sid, browser |-> browser, last |-> t])

CreateSession ==
  /\ serving /\ InBurst
  /\ launched < MaxEngines
  /\ \/ \* line 82 raises: no engine
        /\ out' = Reply("create", "CreationFailure")
        /\ UNCHANGED <<launched, sessions>>
     \/ \* the k-th await of lines 83-95 raises
        \E k \in 1..Len(LoginSteps) :
          /\ launched' = launched + 1
          /\ out' = Reply("create", "CreationFailure")
          /\ UNCHANGED sessions
     \/ \* lines 97-105; secrets.token_urlsafe(16) is a draw from the id space
        \E sid \in Ids :
          /\ launched' = launched + 1
          /\ sessions' = Register(sessions, sid, launched + 1, now)
          /\ out' = [Reply("create", "ok") EXCEPT !.sid = sid]
  /\ UNCHANGED <<now, stops, removals, reaper, serving, chat>>
  /\ UNCHANGED normVars

(***************************************************************************)
(* send_chat, lines 127-192.  Each action is the code from one await to    *)
(* the next.                                                               *)
(***************************************************************************)
ChatFrame == UNCHANGED <<now, launched, stops, removals, reaper, serving>>

\* The request ends with an error response.
ChatFails(status) ==
  /\ out' = Reply("chat", status)
  /\ chat' = ChatIdle

\* lines 129-132: the existence check, then the await of the body.
ChatRequest(sid, files) ==
  /\ serving /\ InBurst
  /\ chat.pc = "idle"
  /\ IF ~Has(sessions, sid)
     THEN /\ out' = Reply("chat", "NotFound")
          /\ UNCHANGED chat
     ELSE /\ chat' = [ChatIdle EXCEPT !.pc = "json", !.sid = sid, !.files = files]
          /\ out' = NoOut
  /\ UNCHANGED sessions
  /\ ChatFrame
  /\ UNCHANGED normVars

\* lines 133-141: sessions[sid] raises KeyError when the entry is gone.
ChatTouch ==
  /\ serving /\ InBurst
  /\ chat.pc = "json"
  /\ IF ~Has(sessions, chat.sid)
     THEN /\ ChatFails("Fault")
          /\ UNCHANGED sessions
     ELSE /\ sessions' = Touch(sessions, chat.sid, now)
          /\ chat' = [chat EXCEPT !.page = Get(sessions, chat.sid).browser,
                                  !.pc = IF Truthy(chat.files) THEN "file_input"
                                         ELSE "chat_input"]
          /\ out' = NoOut
  /\ ChatFrame
  /\ UNCHANGED normVars

\* Mutant of UploadFailure: the handler swallows the exception and the turn
\* goes on to the prompt.
UploadFailureSwallowed ==
  /\ chat' = [chat EXCEPT !.pc = "chat_input"]
  /\ out' = NoOut

\* lines 157-159: the except clause of the attachment block.
UploadFailure == ChatFails("UploadFailure")

\* lines 142-147 and 157-159
ChatFileInput ==
  /\ serving /\ InBurst
  /\ chat.pc = "file_input"
  /\ \/ /\ "ok" \in EngineCall(chat.page)
        /\ chat' = [chat EXCEPT !.pc = "files", !.idx = 1]
        /\ out' = NoOut
     \/ UploadFailure
  /\ UNCHANGED sessions
  /\ ChatFrame
  /\ UNCHANGED normVars

\* Mutant of Exists: the check always passes.
ExistsAlways(path) == TRUE

\* line 150
Exists(path) == path \in OnDisk

\* lines 149-159: one iteration of the for loop; after the last one, line 162.
ChatFile ==
  /\ serving /\ InBurst
  /\ chat.pc = "files"
  /\ LET path == FileList(chat.files)[chat.idx]
         nextPc == IF chat.idx = Len(FileList(chat.files)) THEN "chat_input" ELSE "files"
     IN \/ /\ Exists(path)
           /\ "ok" \in EngineCall(chat.page)
           /\ chat' = [chat EXCEPT !.sent = Append(chat.sent, path),
                                   !.idx = chat.idx + 1, !.pc = nextPc]
           /\ out' = NoOut
        \/ /\ Exists(path)
           /\ UploadFailure
        \/ /\ ~Exists(path)
           /\ chat' = [chat EXCEPT !.idx = chat.idx + 1, !.pc = nextPc]
           /\ out' = NoOut
  /\ UNCHANGED sessions
  /\ ChatFrame
  /\ UNCHANGED normVars

\* line 162
ChatInput ==
  /\ serving /\ InBurst
  /\ chat.pc = "chat_input"
  /\ \/ /\ "ok" \in EngineCall(chat.page)
        /\ chat' = [chat EXCEPT !.pc = "send_keys"]
        /\ out' = NoOut
     \/ ChatFails("Fault")
  /\ UNCHANGED sessions
  /\ ChatFrame
  /\ UNCHANGED normVars

\* line 163
ChatSendKeys ==
  /\ serving /\ InBurst
  /\ chat.pc = "send_keys"
  /\ \/ /\ "ok" \in EngineCall(chat.page)
        /\ chat' = [chat EXCEPT !.pc = "send_loop"]
        /\ out' = NoOut
     \/ ChatFails("Fault")
  /\ UNCHANGED sessions
  /\ ChatFrame
  /\ UNCHANGED normVars

\* Mutant of Retry: a miss ends the turn.
RetryGivesUp(turn) == ChatIdle

\* lines 171-172 and 180-181: `except: pass`, the loop goes round again.
Retry(turn) == [turn EXCEPT !.retried = TRUE]

\* lines 166-175: one attempt of the send loop; the bare except retries.
ChatSendTry ==
  /\ serving /\ InBurst
  /\ chat.pc = "send_loop"
  /\ \/ /\ "ok" \in EngineCall(chat.page)
        /\ chat' = [chat EXCEPT !.pc = "settle", !.clicks = chat.clicks + 1,
                                !.retried = FALSE, !.wake = now + SETTLE_DELAY]
     \/ chat' = Retry(chat)
  /\ out' = NoOut
  /\ UNCHANGED sessions
  /\ ChatFrame
  /\ UNCHANGED normVars

\* Mutant of SettleOver: the sleep returns at once.
SettleOverAtOnce(t, wake) == TRUE

\* asyncio.sleep(10) of line 175, started at wake - SETTLE_DELAY, has returned.
SettleOver(t, wake) == t >= wake

\* line 175: asyncio.sleep(10) returns
ChatSettle ==
  /\ serving /\ InBurst
  /\ chat.pc = "settle"
  /\ SettleOver(now, chat.wake)
  /\ chat' = [chat EXCEPT !.pc = "ready_loop", !.wake = 0]
  /\ out' = NoOut
  /\ UNCHANGED sessions
  /\ ChatFrame
  /\ UNCHANGED normVars

\* lines 176-181: one attempt of the response-ready loop
ChatReadyTry ==
  /\ serving /\ InBurst
  /\ chat.pc = "ready_loop"
  /\ \/ /\ "ok" \in EngineCall(chat.page)
        /\ chat' = [chat EXCEPT !.pc = "extract", !.retried = FALSE]
     \/ chat' = Retry(chat)
  /\ out' = NoOut
  /\ UNCHANGED sessions
  /\ ChatFrame
  /\ UNCHANGED normVars

\* line 186, for each markup the last container may hold
ResponseTexts == {extract_text_from_html(html) : html \in ResponseHtmls}

\* lines 184-192
ChatExtract ==
  /\ serving /\ InBurst
  /\ chat.pc = "extract"
  /\ \/ \* select_all returned a non-empty list
        /\ "ok" \in EngineCall(chat.page)
        /\ \E text \in ResponseTexts :
             out' = [Reply("chat", "ok") EXCEPT
                       !.response = text,
                       !.echo = FilesEcho(chat.files),
                       !.sent = chat.sent]
        /\ chat' = ChatIdle
     \/ \* select_all returned []: response_elements[-1] raises IndexError
        /\ "ok" \in EngineCall(chat.page)
        /\ ChatFails("Fault")
     \/ \* select_all raised
        ChatFails("Fault")
  /\ UNCHANGED sessions
  /\ ChatFrame
  /\ UNCHANGED normVars

Next ==
  \/ Tick
  \/ ReaperScan
  \/ Shutdown
  \/ CreateSession
  \/ \E sid \in Ids : Logout(sid)
  \/ \E sid \in Ids : Refresh(sid)
  \/ \E sid \in Ids, files \in FilesInputs : ChatRequest(sid, files)
  \/ ChatTouch
  \/ ChatFileInput
  \/ ChatFile
  \/ ChatInput
  \/ ChatSendKeys
  \/ ChatSendTry
  \/ ChatSettle
  \/ ChatReadyTry
  \/ ChatExtract

Spec == Init /\ [][Next]_vars


(***************************************************************************)
(* Properties of the service (Spec).                                       *)
(***************************************************************************)
Range(seq) == {seq[k] : k \in 1..Len(seq)}

\* C1: under every interleaving of logouts, reaper cycles and the shutdown,
\* the engine of a session is torn down at most once and its entry is
\* removed at most once, and only together with a teardown.
C1_TeardownOnce ==
  \A b \in Engines : removals[b] <= stops[b] /\ stops[b] <= 1

\* C1 witness: a session has been torn down and removed, and a further
\* logout has been answered NotFound.
C1_Witness ==
  /\ \E b \in Engines : stops[b] = 1 /\ removals[b] = 1
  /\ sessions = <<>>
  /\ out.op = "logout" /\ out.status = "NotFound"

\* C2 (as claimed): a session is never in the store with an idle time that
\* exceeds SESSION_TIMEOUT by more than CLEANUP_INTERVAL.
C2_EvictedWithinInterval ==
  \A k \in 1..Len(sessions) :
    now - sessions[k].last <= SESSION_TIMEOUT + CLEANUP_INTERVAL

\* C3: a reaper cycle leaves in the store every session whose idle time at
\* the scan is at most SESSION_TIMEOUT.
C3_NoEarlyEviction ==
  [][(reaper' # reaper /\ ReaperScan) =>
       \A k \in 1..Len(sessions) :
         now - sessions[k].last <= SESSION_TIMEOUT => sessions[k] \in Range(sessions')]_vars

\* C3 witness: the reaper has just scanned, and a session idle for exactly
\* SESSION_TIMEOUT is still in the store.
C3_Witness ==
  /\ reaper.pc = "sleeping" /\ reaper.wake = now + CLEANUP_INTERVAL
  /\ \E k \in 1..Len(sessions) : now - sessions[k].last = SESSION_TIMEOUT

C5_TouchMissIsNotFound ==
  [][(chat.pc = "json" /\ ~Has(sessions, chat.sid) /\ ChatTouch)
       => out'.status = "NotFound"]_vars

\* C6 (as claimed): a chat turn that gets past its attachments ends, if it
\* ends, with success; its only errors are NotFound and UploadFailure.
C6_OnlyClassifiedErrors ==
  [][(chat.pc \in {"chat_input", "send_keys", "extract"}
        /\ (ChatInput \/ ChatSendKeys \/ ChatExtract))
       => out'.status \in {"none", "ok", "NotFound", "UploadFailure"}]_vars

\* C7: a create that fails leaves the store as it was; a create that
\* succeeds adds exactly the entry of the returned id, holding the new
\* engine and the current time.
C7_CreateAllOrNothing ==
  [][(out'.op = "create" /\ CreateSession) =>
       IF out'.status = "ok"
       THEN /\ Has(sessions', out'.sid)
            /\ Get(sessions', out'.sid) =
                 [sid |-> out'.sid, browser |-> launched', last |-> now]
            /\ \A e \in Range(sessions) : e.sid # out'.sid => e \in Range(sessions')
            /\ Sids(sessions') = Sids(sessions) \cup {out'.sid}
       ELSE sessions' = sessions]_vars

\* C7 witness: with a session registered, a second create has launched its
\* engine and failed in the login flow.
C7_Witness ==
  /\ out.op = "create" /\ out.status = "CreationFailure"
  /\ launched = 2 /\ Len(sessions) = 1

AllMissing(files) == \A p \in Range(files.paths) : p \notin OnDisk

\* C8: a turn none of whose attachment paths is on disk (a turn without
\* attachments included) does not end with UploadFailure in the attachment
\* loop, uploads nothing, and goes on to the prompt.
C8_MissingFilesSkipped ==
  [][/\ (chat.pc = "files" /\ AllMissing(chat.files) /\ ChatFile)
          => /\ out'.status # "UploadFailure"
             /\ chat'.sent = <<>>
             /\ chat'.pc = IF chat.idx = Len(chat.files.paths) THEN "chat_input" ELSE "files"
     /\ (chat.pc = "json" /\ ~Truthy(chat.files) /\ Has(sessions, chat.sid) /\ ChatTouch)
          => /\ out'.status # "UploadFailure"
             /\ chat'.sent = <<>>
             /\ chat'.pc = "chat_input"]_vars

\* C8 witness: a turn whose only path is missing has reached the prompt.
C8_Witness ==
  /\ chat.pc = "chat_input"
  /\ chat.files = FilesStr("missing")
  /\ chat.sent = <<>>

\* C9 (as claimed): files_uploaded of a successful response names no path
\* that the turn skipped.
C9_EchoOmitsSkipped ==
  (out.op = "chat" /\ out.status = "ok")
    => \A p \in Range(out.echo.paths) : p \in Range(out.sent)

\* A chat turn that has touched its session (line 137) and is in its
\* send-retry loop, its settle delay or its response-ready loop.
TurnInFlight == chat.pc \in {"send_loop", "settle", "ready_loop"}

\* C13 (as claimed): a reaper cycle does not evict the session of a chat turn
\* in flight, however long the turn has been in its loops.
C13_InFlightNotEvicted ==
  [][(reaper' # reaper /\ TurnInFlight /\ Has(sessions, chat.sid) /\ ReaperScan)
       => Has(sessions', chat.sid)]_vars

\* C14 (as claimed): a reaper cycle in which a teardown fails leaves the
\* reaper running and the store without any of the cycle's expired sessions.
C14_ReaperSurvivesTeardownFailure ==
  [][(reaper' # reaper /\ ReaperScan)
       => /\ reaper'.pc = "sleeping"
          /\ \A k \in 1..Len(sessions) :
               Expired(sessions[k], now) => ~Has(sessions', sessions[k].sid)]_vars

\* C15 (as claimed): a successful create registers its session under an id
\* that is not in the store, adding an entry and overwriting none.
C15_CreateNeverOverwrites ==
  [][(out'.op = "create" /\ out'.status = "ok" /\ CreateSession)
       => /\ ~Has(sessions, out'.sid)
          /\ Len(sessions') = Len(sessions) + 1]_vars

\* The steps of a chat turn, in the order of the code: each pair is a step
\* and the step that may follow it.
TurnOrder ==
  { <<"idle", "json">>,
    <<"json", "file_input">>, <<"json", "chat_input">>,
    <<"file_input", "files">>, <<"files", "files">>, <<"files", "chat_input">>,
    <<"chat_input", "send_keys">>, <<"send_keys", "send_loop">>,
    <<"send_loop", "send_loop">>, <<"send_loop", "settle">>,
    <<"settle", "ready_loop">>, <<"ready_loop", "ready_loop">>,
    <<"ready_loop", "extract">> }

\* C16: a chat turn moves through its steps in the order attachments, prompt,
\* send click, settle delay, response ready, extraction: the send loop is
\* entered only after the prompt was typed, the response-ready loop only
\* when the settle delay that follows the click is over, the extraction
\* only after the disabled send control was observed, and a response is
\* returned only by the extraction step.
C16_TurnOrder ==
  [][/\ (chat'.pc # chat.pc /\ chat'.pc # "idle") => <<chat.pc, chat'.pc>> \in TurnOrder
     /\ (chat.pc = "settle" /\ chat'.pc = "ready_loop") => now >= chat.wake
     /\ (chat'.pc = "settle" /\ chat.pc # "settle")
          => chat'.wake = now + SETTLE_DELAY /\ chat'.clicks = 1
     /\ (out'.op = "chat" /\ out'.status = "ok") => chat.pc = "extract"]_vars

\* C16 witness: a turn with an attachment has returned its response.
C16_Witness ==
  /\ out.op = "chat" /\ out.status = "ok"
  /\ out.sent # <<>>
  /\ out.response # <<>>

\* C17: an attempt of the send loop or of the response-ready loop never ends
\* the turn and never sends a response, whether it misses or not; a send
\* attempt that clicks leaves the send loop; a returned turn has clicked
\* exactly once.
C17_MissesAreAbsorbed ==
  [][/\ (chat.pc \in {"send_loop", "ready_loop"} /\ (ChatSendTry \/ ChatReadyTry))
          => /\ chat'.pc # "idle"
             /\ out' = NoOut
             /\ chat'.clicks > chat.clicks => chat'.pc = "settle"
             /\ chat'.clicks = chat.clicks => chat'.pc \in {chat.pc, "extract"}
     /\ (chat.pc = "extract" /\ out'.op = "chat" /\ out'.status = "ok")
          => chat.clicks = 1]_vars

\* C17 witness: a turn that clicked once has missed in the response-ready
\* loop and is still in it.
C17_Witness ==
  /\ chat.pc = "ready_loop"
  /\ chat.retried
  /\ chat.clicks = 1

\* C18: the touch of a turn with attachments sets last_access to the current
\* time; the file-input lookup either starts the file loop or ends the turn,
\* and an iteration of the file loop either moves to the next path or ends
\* the turn; a turn ended there is answered UploadFailure, has typed no
\* prompt and clicked nothing, and its step leaves the store as it is.
C18_UploadFailureEndsTurn ==
  [][/\ (chat.pc = "json" /\ Truthy(chat.files) /\ Has(sessions, chat.sid) /\ ChatTouch)
          => /\ Get(sessions', chat.sid).last = now
             /\ chat'.pc = "file_input"
     /\ (chat.pc = "file_input" /\ ChatFileInput)
          => \/ chat'.pc = "files" /\ out' = NoOut
             \/ /\ chat' = ChatIdle
                /\ out' = Reply("chat", "UploadFailure")
                /\ chat.clicks = 0
                /\ sessions' = sessions
     /\ (chat.pc = "files" /\ ChatFile)
          => \/ /\ chat'.pc \in {"files", "chat_input"}
                /\ chat'.idx = chat.idx + 1
                /\ out' = NoOut
             \/ /\ chat' = ChatIdle
                /\ out' = Reply("chat", "UploadFailure")
                /\ chat.clicks = 0
                /\ sessions' = sessions]_vars

\* C18 witness: a turn has ended with UploadFailure and its session is in
\* the store with the last_access of the touch.
C18_Witness ==
  /\ out.op = "chat" /\ out.status = "UploadFailure"
  /\ chat = ChatIdle
  /\ \E k \in 1..Len(sessions) : sessions[k].last = now /\ now > 0

\* C19 (as claimed): when a create that launched an engine has finished, the
\* engine is owned by a session of the store or has been stopped.
C19_NoOrphanEngine ==
  [][(launched' # launched /\ CreateSession)
       => \/ launched' \in EnginesOf(sessions')
          \/ Stopped(launched)']_vars

\* C20: a turn in its send loop, settle delay or response-ready loop whose
\* engine has been stopped stays there: while the service runs, no step
\* takes it out of the loops and none sends a response for it.
C20_StoppedEngineTurnNeverEnds ==
  [][(TurnInFlight /\ Stopped(chat.page) /\ serving')
       => /\ TurnInFlight'
          /\ chat'.pc # "extract"
          /\ out'.op # "chat"]_vars

\* C20 witness: the session of a turn has been removed and its engine
\* stopped, and the turn has missed in its loop since.
C20_Witness ==
  /\ TurnInFlight
  /\ chat.retried
  /\ Stopped(chat.page)
  /\ ~Has(sessions, chat.sid)

(***************************************************************************)
(* The normalizer on its own: extract_text_from_html applied to a text     *)
(* built from at most MaxFrags fragments, then to its own result.          *)
(***************************************************************************)
MaxFrags == 4

BlankLine == <<"\n", " ", "\n">>     \* a line that holds one space
Fragments ==
  { <<"a">>, <<" ">>, <<"\n">>, BlankLine, <<"<", "p", ">">>, <<"<">>, <<">">> }

RECURSIVE Flatten(_)
Flatten(fs) == IF fs = <<>> THEN <<>> ELSE Head(fs) \o Flatten(Tail(fs))

NormInputs == {Flatten(fs) : fs \in UNION {[1..n -> Fragments] : n \in 0..MaxFrags}}

NormInit ==
  /\ ServiceInit
  /\ nIn \in NormInputs
  /\ nOut = <<>>

Normalize ==
  /\ Len(nOut) < 2
  /\ nOut' = Append(nOut, extract_text_from_html(IF nOut = <<>> THEN nIn ELSE nOut[1]))
  /\ UNCHANGED <<nIn, now, sessions, launched, stops, removals, reaper, serving, chat, out>>

NextNorm == Normalize

SpecNorm == NormInit /\ [][NextNorm]_vars

\* C10: normalizing a normalized text changes nothing:
\* normalize(normalize(x)) = normalize(x) for every input x.
C10_Idempotent == Len(nOut) = 2 => nOut[2] = nOut[1]

\* C11 (as claimed): the text the normalizer returns holds neither "<" nor
\* ">", for every input, an unmatched "<" or ">" included.
C11_NoAngleBrackets ==
  Len(nOut) >= 1 => \A c \in Range(nOut[1]) : c \notin {"<", ">"}

(***************************************************************************)
(* The normalizer on script and style elements: extract_text_from_html     *)
(* applied to  before <TAG> content </TAG> after,  where the tag name is   *)
(* script or style in some letter case and the content is made of the      *)
(* character HiddenChar, which occurs nowhere else in the input.           *)
(***************************************************************************)
HiddenChar == "x"

\* Tag names of the non-visible elements, in the letter cases markup uses.
HiddenTagNames ==
  { <<"s","c","r","i","p","t">>, <<"S","C","R","I","P","T">>,
    <<"S","c","r","i","p","t">>,
    <<"s","t","y","l","e">>, <<"S","T","Y","L","E">> }

OpenTag(name) == <<"<">> \o name \o <<">">>
CloseTag(name) == <<"<", "/">> \o name \o <<">">>

HiddenBodies == { <<HiddenChar>>, <<HiddenChar, " ", HiddenChar>>,
                  <<HiddenChar, "\n", HiddenChar>> }

Surroundings == { <<>>, <<"a">>, <<"a", " ">>, <<"\n">>, <<"<","p",">">>,
                  <<"<","/","p",">">> }

MarkupInputs ==
  { before \o OpenTag(name) \o body \o CloseTag(name) \o after :
      before \in Surroundings, name \in HiddenTagNames,
      body \in HiddenBodies, after \in Surroundings }

MarkupInit ==
  /\ ServiceInit
  /\ nIn \in MarkupInputs
  /\ nOut = <<>>

SpecMarkup == MarkupInit /\ [][NextNorm]_vars

\* C12 (as claimed): nothing enclosed by a script or style element is in the
\* text the normalizer returns, whatever the letter case of the tag name.
C12_HiddenContentDropped ==
  Len(nOut) >= 1 => HiddenChar \notin Range(nOut[1])

====
